---------------------------- MODULE Spec2Model ----------------------------
(***************************************************************************)
(* Equity forward IPV check (src/equity_forward_ipv.py): input validation, *)
(* cost-of-carry and put-call-parity forwards, the implied-net-carry       *)
(* inversion, the PASS/FAIL verdict with its root-cause hints, and the     *)
(* text report.                                                            *)
(*                                                                         *)
(* Numbers.  A Python float is modelled as a fixed-point number: the       *)
(* integer n stands for n / SCALE.  Every arithmetic operation rounds its  *)
(* exact result to the nearest representable value, ties to even, as IEEE  *)
(* arithmetic does.  exp and log are evaluated by their series, each on    *)
(* its own, so that log(exp(x)) = x is not true by construction.  The      *)
(* inputs range over rates, maturities and prices for which exp neither    *)
(* overflows nor rounds to zero; outside such a range math.exp raises      *)
(* OverflowError or returns 0.0, which this model does not cover.          *)
(*                                                                         *)
(* An Optional value is the empty tuple (None) or a one-element tuple.     *)
(***************************************************************************)
EXTENDS Integers, Sequences, FiniteSets, TLC

VARIABLES
    pc,         \* where the caller is: which function returned or raised
    x,          \* the EquityForwardIPVInputs passed (None before a call)
    cfg,        \* run_ipv_check's keyword arguments (None when not passed)
    raised,     \* None, or the message of the exception that propagated
    locals,     \* run_ipv_check's local variables when it returned
    report,     \* the dict run_ipv_check returned
    top_hints,  \* format_ipv_report's top_hints argument
    text,       \* the lines format_ipv_report joined
    pr          \* arguments and results of direct calls to the pricer

vars == <<pc, x, cfg, raised, locals, report, top_hints, text, pr>>

---------------------------------------------------------------------------
(* Optional values *)

None == <<>>
Some(v) == <<v>>
IsNone(o) == o = <<>>
Val(o) == o[1]

---------------------------------------------------------------------------
(* Fixed-point arithmetic *)

SCALE == 10 * 10 * 10

Abs(v) == IF v < 0 THEN -v ELSE v

\* n / d for d > 0, rounded to the nearest integer, ties to even.
RoundDiv(n, d) ==
    LET q == n \div d
        r == n % d
    IN  IF 2 * r < d THEN q
        ELSE IF 2 * r > d THEN q + 1
        ELSE IF q % 2 = 0 THEN q ELSE q + 1

\* a * b.  The operand of larger magnitude is split into its integer and
\* fractional part so that no intermediate product leaves 32 bits.
MulSplit(a, b) == (b \div SCALE) * a + RoundDiv((b % SCALE) * a, SCALE)
Mul(a, b) == IF Abs(a) > Abs(b) THEN MulSplit(b, a) ELSE MulSplit(a, b)

\* a / b for b # 0 (the caller raises ZeroDivisionError for b = 0).
DivPos(a, b) == IF b % SCALE = 0 THEN RoundDiv(a, b \div SCALE)
                ELSE RoundDiv(a * SCALE, b)
Div(a, b) == IF b < 0 THEN DivPos(-a, -b) ELSE DivPos(a, b)

\* The float literals of the source.
Num(n) == n * SCALE

\* Python's max(a, b): b only when it compares greater than a.
Max(a, b) == IF b > a THEN b ELSE a

\* 10^n for n >= 0.
RECURSIVE Pow10(_)
Pow10(n) == IF n <= 0 THEN 1 ELSE 10 * Pow10(n - 1)

\* The decimal digits the representation carries: SCALE = 10^Digits.
RECURSIVE Log10(_)
Log10(n) == IF n < 10 THEN 0 ELSE 1 + Log10(n \div 10)
Digits == Log10(SCALE)

\* round(v, nd): to nd decimals, ties to even; a value that already has at
\* most nd decimals is returned as it is.
Round(v, nd) ==
    IF nd >= Digits THEN v
    ELSE LET unit == Pow10(Digits - nd)
         IN  RoundDiv(v, unit) * unit

\* math.exp(v): the Taylor series, term by term until a term rounds to 0.
ExpTerms == 2 * 8
RECURSIVE ExpSeries(_, _, _)
ExpSeries(v, k, term) ==
    IF k > ExpTerms \/ term = 0 THEN 0
    ELSE term + ExpSeries(v, k + 1, RoundDiv(term * v, SCALE * k))
Exp(v) == ExpSeries(v, 1, SCALE)

\* math.log(y) for y > 0: y is brought into [0.75, 1.5) by halving or
\* doubling (each worth ln 2), then ln m = 2 atanh((m - 1) / (m + 1)) by its
\* series, carried with two guard digits.
Ln2 == RoundDiv(693147 * SCALE, 1000000)
Guard == 10 * 10
RECURSIVE AtanhSeries(_, _, _)
AtanhSeries(z2, k, pow) ==
    IF k > ExpTerms \/ pow = 0 THEN 0
    ELSE RoundDiv(pow, k) + AtanhSeries(z2, k + 2, RoundDiv(pow * z2, SCALE * Guard))
RECURSIVE Ln(_)
Ln(y) ==
    IF 2 * y >= 3 * SCALE THEN Ln2 + Ln(RoundDiv(y, 2))
    ELSE IF 4 * y < 3 * SCALE THEN Ln(2 * y) - Ln2
    ELSE LET z == RoundDiv((y - SCALE) * SCALE * Guard, y + SCALE)
         IN  RoundDiv(2 * AtanhSeries(RoundDiv(z * z, SCALE * Guard), 1, z), Guard)

---------------------------------------------------------------------------
(* Inputs: class EquityForwardIPVInputs *)

EquityForwardIPVInputs(spot, r, net_carry, T, strike, call, put) ==
    [spot |-> spot, r |-> r, net_carry |-> net_carry, T |-> T,
     strike |-> strike, call |-> call, put |-> put]

(* Validation *)


\* validate_inputs with spot < 0 for spot <= 0.
validate_inputs_strict_spot(i) ==
    IF i.spot < 0 THEN Some("spot must be > 0")
    ELSE IF i.strike <= 0 THEN Some("strike must be > 0")
    ELSE IF i.T <= 0 THEN Some("T must be > 0")
    ELSE IF ~IsNone(i.call) /\ Val(i.call) < 0 THEN Some("call must be >= 0")
    ELSE IF ~IsNone(i.put) /\ Val(i.put) < 0 THEN Some("put must be >= 0")
    ELSE IF IsNone(i.call) # IsNone(i.put)
         THEN Some("provide both call and put (same K,T), or neither")
    ELSE None

\* validate_inputs without its last check.
validate_inputs_no_xor(i) ==
    IF i.spot <= 0 THEN Some("spot must be > 0")
    ELSE IF i.strike <= 0 THEN Some("strike must be > 0")
    ELSE IF i.T <= 0 THEN Some("T must be > 0")
    ELSE IF ~IsNone(i.call) /\ Val(i.call) < 0 THEN Some("call must be >= 0")
    ELSE IF ~IsNone(i.put) /\ Val(i.put) < 0 THEN Some("put must be >= 0")
    ELSE None

\* validate_inputs(x): None when it returns, else the ValueError's message.
validate_inputs(i) ==
    IF i.spot <= 0 THEN Some("spot must be > 0")
    ELSE IF i.strike <= 0 THEN Some("strike must be > 0")
    ELSE IF i.T <= 0 THEN Some("T must be > 0")
    ELSE IF ~IsNone(i.call) /\ Val(i.call) < 0 THEN Some("call must be >= 0")
    ELSE IF ~IsNone(i.put) /\ Val(i.put) < 0 THEN Some("put must be >= 0")
    ELSE IF IsNone(i.call) # IsNone(i.put)
         THEN Some("provide both call and put (same K,T), or neither")
    ELSE None

(* Core formulas (continuous comp) *)

\* Baseline: F = S0 * exp((r - net_carry) * T).
forward_carry(spot, r, net_carry, T) ==
    Mul(spot, Exp(Mul(r - net_carry, T)))

\* Market-implied: F = K + exp(rT) * (C - P).
forward_from_put_call_parity(K, C, P, r, T) ==
    K + Mul(Exp(Mul(r, T)), C - P)


\* The guard with F_target < 0 for F_target <= 0.
Undefined_strict_forward(spot, F_target, T) == spot <= 0 \/ T <= 0 \/ F_target < 0

\* The guard of implied_net_carry: no net carry solves the equation.
Undefined(spot, F_target, T) == spot <= 0 \/ T <= 0 \/ F_target <= 0


\* The logarithm not divided by T.
LogRatio_no_T(spot, F_target, T) == Ln(Div(F_target, spot))

\* math.log(F_target / spot) / T
LogRatio(spot, F_target, T) == Div(Ln(Div(F_target, spot)), T)

\* q_implied = r - ln(F_target / S0) / T, or None.
implied_net_carry(spot, F_target, r, T) ==
    IF Undefined(spot, F_target, T) THEN None
    ELSE Some(r - LogRatio(spot, F_target, T))

\* The exception implied_net_carry raises past its guard, if any: a division
\* by zero, or math.log of a quotient that is not positive.
PricerError(spot, F_target, T) ==
    IF Undefined(spot, F_target, T) THEN None
    ELSE IF spot = 0 THEN Some("ZeroDivisionError")
    ELSE IF Div(F_target, spot) <= 0 THEN Some("math domain error")
    ELSE IF T = 0 THEN Some("ZeroDivisionError")
    ELSE None

---------------------------------------------------------------------------
(* IPV engine: run_ipv_check *)

\* pass_rule (the source writes the Greek capital delta for d).
PassRule == "|dF| <= tol_eff (tol_eff = max(tol_abs, tol_bps * F_carry / 10000))"

HintTimestamp == "Timestamp alignment (spot vs options)."
HintConventions == "Conventions (T, day count, compounding, curve)."
HintLower == "Market-implied forward LOWER: check higher dividends / higher borrow-repo / stale spot."
HintHigher == "Market-implied forward HIGHER: check lower dividends / lower borrow-repo / stale options."
HintCarryMismatch == "Dividends / repo-borrow (net carry mismatch)."
HintCarryUnavailable == "Implied net carry not available (invalid inputs or F<=0)."
HintSettlement == "Settlement & corporate actions (ex-div, specials, splits)."
HintBidAsk == "Bid/ask consistency (mid vs executable, stale quotes)."

\* The keyword arguments of run_ipv_check.
ToleranceConfig(tol_abs, tol_bps, tol_q_gap_bps, rounding) ==
    [tol_abs |-> tol_abs, tol_bps |-> tol_bps,
     tol_q_gap_bps |-> tol_q_gap_bps, rounding |-> rounding]


\* The first report with the effective tolerance already filled in.
InitialReport_tol_eff(i, c, f_baseline) ==
    [status |-> "N/A (no options provided)",
     pass_rule |-> PassRule,
     baseline_forward |-> Round(f_baseline, c.rounding),
     market_implied_forward |-> None,
     abs_spread |-> None,
     rel_spread_bps_vs_fbase |-> None,
     rel_spread_bps_vs_spot |-> None,
     net_carry_input |-> i.net_carry,
     net_carry_input_pct |-> Round(Mul(i.net_carry, Num(100)), 3),
     net_carry_implied |-> None,
     net_carry_implied_pct |-> None,
     net_carry_gap_bps |-> None,
     pass_eff |-> None,
     tolerances |-> [tol_abs |-> c.tol_abs, tol_bps |-> c.tol_bps,
                     tol_eff |-> Some(c.tol_abs), tol_q_gap_bps |-> c.tol_q_gap_bps],
     root_cause_hints |-> <<>>,
     assumptions |-> [compounding |-> "continuous",
                      net_carry |-> "dividend_yield - repo/borrow"]]

\* The report as first built: the one returned when no options are given.
InitialReport(i, c, f_baseline) ==
    [status |-> "N/A (no options provided)",
     pass_rule |-> PassRule,
     baseline_forward |-> Round(f_baseline, c.rounding),
     market_implied_forward |-> None,
     abs_spread |-> None,
     rel_spread_bps_vs_fbase |-> None,
     rel_spread_bps_vs_spot |-> None,
     net_carry_input |-> i.net_carry,
     net_carry_input_pct |-> Round(Mul(i.net_carry, Num(100)), 3),
     net_carry_implied |-> None,
     net_carry_implied_pct |-> None,
     net_carry_gap_bps |-> None,
     pass_eff |-> None,
     tolerances |-> [tol_abs |-> c.tol_abs, tol_bps |-> c.tol_bps,
                     tol_eff |-> None, tol_q_gap_bps |-> c.tol_q_gap_bps],
     root_cause_hints |-> <<>>,
     assumptions |-> [compounding |-> "continuous",
                      net_carry |-> "dividend_yield - repo/borrow"]]


\* The effective tolerance with tol_bps taken with its sign.
EffectiveTolerance_signed(c, f_baseline) ==
    Max(c.tol_abs, Div(Mul(c.tol_bps, f_baseline), Num(10000)))

\* tol_eff = max(tol_abs, abs(tol_bps) * f_baseline / 10000.0)
EffectiveTolerance(c, f_baseline) ==
    Max(c.tol_abs, Div(Mul(Abs(c.tol_bps), f_baseline), Num(10000)))


\* The verdict with < for <=.
PassEff_strict(abs_spread, tol_eff) == Abs(abs_spread) < tol_eff

\* pass_eff = abs(abs_spread) <= tol_eff
PassEff(abs_spread, tol_eff) == Abs(abs_spread) <= tol_eff

\* The third hint.
DirectionalHint(abs_spread) ==
    IF abs_spread < 0 THEN <<HintLower>> ELSE <<HintHigher>>


\* The net-carry hint with > for >=.
NetCarryHint_strict(q_impl, q_gap_bps, c) ==
    IF ~IsNone(q_impl)
    THEN IF Abs(Val(q_gap_bps)) > c.tol_q_gap_bps
         THEN <<HintCarryMismatch>> ELSE <<>>
    ELSE <<HintCarryUnavailable>>

\* The net-carry hint, or none.
NetCarryHint(q_impl, q_gap_bps, c) ==
    IF ~IsNone(q_impl)
    THEN IF Abs(Val(q_gap_bps)) >= c.tol_q_gap_bps
         THEN <<HintCarryMismatch>> ELSE <<>>
    ELSE <<HintCarryUnavailable>>


\* The hints with the net-carry hint appended last.
Hints_carry_last(status, abs_spread, q_impl, q_gap_bps, c) ==
    IF status = "FAIL"
    THEN <<HintTimestamp, HintConventions>>
         \o DirectionalHint(abs_spread)
         \o <<HintSettlement, HintBidAsk>>
         \o NetCarryHint(q_impl, q_gap_bps, c)
    ELSE <<>>

\* root_cause_hints
Hints(status, abs_spread, q_impl, q_gap_bps, c) ==
    IF status = "FAIL"
    THEN <<HintTimestamp, HintConventions>>
         \o DirectionalHint(abs_spread)
         \o NetCarryHint(q_impl, q_gap_bps, c)
         \o <<HintSettlement, HintBidAsk>>
    ELSE <<>>

\* The local variables of run_ipv_check once the options are evaluated.
Evaluate(i, c, f_baseline) ==
    LET f_mkt == forward_from_put_call_parity(i.strike, Val(i.call), Val(i.put), i.r, i.T)
        abs_spread == f_mkt - f_baseline
        rel_bps_fbase == Mul(Div(abs_spread, f_baseline), Num(10000))
        rel_bps_spot == Mul(Div(abs_spread, i.spot), Num(10000))
        tol_eff == EffectiveTolerance(c, f_baseline)
        pass_eff == PassEff(abs_spread, tol_eff)
        status == IF pass_eff THEN "PASS" ELSE "FAIL"
        q_impl == implied_net_carry(i.spot, f_mkt, i.r, i.T)
        q_gap_bps == IF ~IsNone(q_impl)
                     THEN Some(Mul(Val(q_impl) - i.net_carry, Num(10000)))
                     ELSE None
    IN  [f_baseline |-> f_baseline, f_mkt |-> f_mkt, abs_spread |-> abs_spread,
         rel_bps_fbase |-> rel_bps_fbase, rel_bps_spot |-> rel_bps_spot,
         tol_eff |-> tol_eff, pass_eff |-> pass_eff, status |-> status,
         q_impl |-> q_impl, q_gap_bps |-> q_gap_bps,
         hints |-> Hints(status, abs_spread, q_impl, q_gap_bps, c)]

\* report.update({...})
UpdatedReport(rep, l, c) ==
    [rep EXCEPT
        !.status = l.status,
        !.baseline_forward = Round(l.f_baseline, c.rounding),
        !.market_implied_forward = Some(Round(l.f_mkt, c.rounding)),
        !.abs_spread = Some(Round(l.abs_spread, c.rounding)),
        !.rel_spread_bps_vs_fbase = Some(Round(l.rel_bps_fbase, 2)),
        !.rel_spread_bps_vs_spot = Some(Round(l.rel_bps_spot, 2)),
        !.net_carry_implied = l.q_impl,
        !.net_carry_implied_pct =
            IF ~IsNone(l.q_impl)
            THEN Some(Round(Mul(Val(l.q_impl), Num(100)), 3)) ELSE None,
        !.net_carry_gap_bps =
            IF ~IsNone(l.q_gap_bps) THEN Some(Round(Val(l.q_gap_bps), 1)) ELSE None,
        !.pass_eff = Some(l.pass_eff),
        !.tolerances = [rep.tolerances EXCEPT !.tol_eff = Some(l.tol_eff)],
        !.root_cause_hints = l.hints]

\* The exception run_ipv_check raises after validation when a call price is
\* given, if any: the parity formula on an absent put, a division by a zero
\* forward or spot, or an exception of implied_net_carry.
ArithmeticError(i, f_baseline) ==
    IF IsNone(i.put) THEN Some("TypeError")
    ELSE IF f_baseline = 0 \/ i.spot = 0 THEN Some("ZeroDivisionError")
    ELSE PricerError(i.spot,
                     forward_from_put_call_parity(i.strike, Val(i.call), Val(i.put), i.r, i.T),
                     i.T)

---------------------------------------------------------------------------
(* Output formatting: format_ipv_report *)

\* fmt_num(v, nd): "N/A", or v printed with nd decimals.
fmt_num(v, nd) == IF IsNone(v) THEN <<"N/A">> ELSE <<"f", nd, Round(Val(v), nd)>>

\* The tolerance clause of the spread line.  A report of run_ipv_check always
\* carries tol_abs and tol_bps, so the clause is the full one or "N/A".
TolStr(t) ==
    IF ~IsNone(t.tol_eff)
    THEN <<"tol_abs: ", t.tol_abs, ", tol_bps: ", t.tol_bps, ", tol_eff: ">>
         \o fmt_num(t.tol_eff, 3)
    ELSE <<"N/A">>


\* hints[:top_hints], the limit not clamped at 0: a negative limit counts
\* from the end of the list.
HintLines_no_clamp(hints, n) ==
    LET k == IF n < 0 THEN Max(0, Len(hints) + n) ELSE n
        shown == IF k >= Len(hints) THEN hints ELSE SubSeq(hints, 1, k)
    IN  [j \in 1..Len(shown) |-> <<"- ", shown[j]>>]

\* for h in hints[:max(0, top_hints)]: lines.append(f"- {h}")
HintLines(hints, n) ==
    LET k == Max(0, n)
        shown == IF k >= Len(hints) THEN hints ELSE SubSeq(hints, 1, k)
    IN  [j \in 1..Len(shown) |-> <<"- ", shown[j]>>]

\* The "Next checks" block: nothing at all for an empty hint list.
NextChecks(hints, n) ==
    IF hints # <<>>
    THEN << <<"">>, <<"Next checks        :">> >> \o HintLines(hints, n)
    ELSE <<>>

Rule40 == <<"========================================">>

\* The lines format_ipv_report joins with "\n", each line the pieces its
\* f-string puts together (the Greek capital delta written d).
format_ipv_report(rep, n) ==
    << Rule40, <<" EQUITY FORWARD IPV REPORT">>, Rule40,
       <<"STATUS            : ", rep.status>>,
       <<"Rule              : ", rep.pass_rule>>,
       <<"">>,
       <<"F_baseline (carry): ">> \o fmt_num(Some(rep.baseline_forward), 3),
       <<"F_implied (parity): ">> \o fmt_num(rep.market_implied_forward, 3),
       <<"">>,
       <<"dF (abs)          : ">> \o fmt_num(rep.abs_spread, 3)
            \o <<"   (">> \o TolStr(rep.tolerances) \o <<")">>,
       <<"dF (bps vs F)     : ">> \o fmt_num(rep.rel_spread_bps_vs_fbase, 2),
       <<"dF (bps vs S)     : ">> \o fmt_num(rep.rel_spread_bps_vs_spot, 2),
       <<"">>,
       <<"Net carry (input) : ", rep.net_carry_input_pct, "%">>,
       <<"Net carry (impl.) : ">>
            \o (IF IsNone(rep.net_carry_implied_pct) THEN <<"N/A">>
                ELSE fmt_num(rep.net_carry_implied_pct, 3) \o <<"%">>) >>
    \o (IF ~IsNone(rep.net_carry_gap_bps)
        THEN << <<"dq (bps)          : ",
                  IF Val(rep.net_carry_gap_bps) >= 0 THEN "+" ELSE "">>
                \o fmt_num(rep.net_carry_gap_bps, 1) >>
        ELSE <<>>)
    \o NextChecks(rep.root_cause_hints, n)
    \o <<Rule40>>

---------------------------------------------------------------------------
(* The inputs the model draws *)

MaxT == 2           \* year fraction: up to MaxT half years
MaxOpt == 2         \* call, put and target forward: up to MaxOpt half units
MaxTopHints == 7    \* top_hints: up to one more than the longest hint list
MaxSpot == 2        \* round trip: spot up to MaxSpot currency units
MaxRate == 1        \* round trip: rates up to 4 * MaxRate twentieths

HalfUnit == SCALE \div 2
Tenth == SCALE \div 10

SpotValues == {-SCALE, 0, SCALE, 2 * SCALE}
StrikeValues == {-SCALE, 0, SCALE, 2 * SCALE}
TValues == {k * HalfUnit : k \in -1..MaxT}
RateValues == {0, Tenth}
CarryValues == {-Tenth, 0, Tenth}
OptionValues == {None} \cup {Some(k * HalfUnit) : k \in -1..MaxOpt}
TargetValues == {k * HalfUnit : k \in -1..MaxOpt}

\* The default of run_ipv_check's rounding.
DefaultRounding == 6

TolAbsValues == {-HalfUnit, HalfUnit}
TolBpsValues == {-Num(10000), 0, Num(10000)}
TolQGapValues == {Num(1000), Num(5000)}
RoundingValues == {2, DefaultRounding}
TopHintsValues == -1..MaxTopHints

Inputs ==
    {EquityForwardIPVInputs(s, r, q, T, K, C, P) :
        s \in SpotValues, r \in RateValues, q \in CarryValues, T \in TValues,
        K \in StrikeValues, C \in OptionValues, P \in OptionValues}

Configs ==
    {ToleranceConfig(a, b, g, n) :
        a \in TolAbsValues, b \in TolBpsValues, g \in TolQGapValues,
        n \in RoundingValues}

---------------------------------------------------------------------------
(* The state machine: a caller of the module's functions *)

NoPricerCall == [fn |-> "none"]

Init ==
    /\ pc = "idle"
    /\ x = None
    /\ cfg = None
    /\ raised = None
    /\ locals = None
    /\ report = None
    /\ top_hints = None
    /\ text = None
    /\ pr = NoPricerCall

\* validate_inputs(x), called on its own.
ValidateInputs ==
    /\ pc = "idle"
    /\ \E i \in Inputs :
        /\ x' = Some(i)
        /\ raised' = validate_inputs(i)
        /\ pc' = IF IsNone(validate_inputs(i)) THEN "validated" ELSE "raised"
    /\ UNCHANGED <<cfg, locals, report, top_hints, text, pr>>

\* run_ipv_check(x, tol_abs, tol_bps, tol_q_gap_bps, rounding)
RunIpvCheck ==
    /\ pc = "idle"
    /\ \E i \in Inputs, c \in Configs :
        /\ x' = Some(i)
        /\ cfg' = Some(c)
        /\ IF ~IsNone(validate_inputs(i))
           THEN \* validate_inputs(x) raises: nothing is computed
                /\ raised' = validate_inputs(i)
                /\ locals' = None
                /\ report' = None
                /\ pc' = "raised"
           ELSE LET f_baseline == forward_carry(i.spot, i.r, i.net_carry, i.T)
                    rep == InitialReport(i, c, f_baseline)
                IN  IF IsNone(i.call)
                    THEN \* return report
                         /\ raised' = None
                         /\ locals' = Some([f_baseline |-> f_baseline])
                         /\ report' = Some(rep)
                         /\ pc' = "returned"
                    ELSE IF ~IsNone(ArithmeticError(i, f_baseline))
                    THEN /\ raised' = ArithmeticError(i, f_baseline)
                         /\ locals' = Some([f_baseline |-> f_baseline])
                         /\ report' = None
                         /\ pc' = "raised"
                    ELSE LET l == Evaluate(i, c, f_baseline)
                         IN  /\ raised' = None
                             /\ locals' = Some(l)
                             /\ report' = Some(UpdatedReport(rep, l, c))
                             /\ pc' = "returned"
    /\ UNCHANGED <<top_hints, text, pr>>

\* format_ipv_report(rep, top_hints) on a report run_ipv_check returned.
FormatIpvReport ==
    /\ pc = "returned"
    /\ \E n \in TopHintsValues :
        /\ top_hints' = Some(n)
        /\ text' = Some(format_ipv_report(Val(report), n))
    /\ pc' = "formatted"
    /\ UNCHANGED <<x, cfg, raised, locals, report, pr>>

\* implied_net_carry(spot, F_target, r, T), called on its own.
ImpliedNetCarry ==
    /\ pc = "idle"
    /\ \E s \in SpotValues, F \in TargetValues, r \in RateValues, T \in TValues :
        /\ pr' = [fn |-> "implied_net_carry", spot |-> s, F_target |-> F,
                  r |-> r, T |-> T,
                  result |-> IF ~IsNone(PricerError(s, F, T)) THEN None
                             ELSE implied_net_carry(s, F, r, T)]
        /\ raised' = PricerError(s, F, T)
        /\ pc' = IF ~IsNone(PricerError(s, F, T)) THEN "raised" ELSE "priced"
    /\ UNCHANGED <<x, cfg, locals, report, top_hints, text>>

Next ==
    \/ ValidateInputs
    \/ RunIpvCheck
    \/ FormatIpvReport
    \/ ImpliedNetCarry

Spec == Init /\ [][Next]_vars

---------------------------------------------------------------------------
(* The pricer on its own: forward_carry, then implied_net_carry on its     *)
(* result.                                                                 *)

RoundTripSpots == {k * HalfUnit : k \in 1..(2 * MaxSpot)}
RoundTripRates == {k * (Tenth \div 2) : k \in -2..(4 * MaxRate)}
RoundTripTs == {k * HalfUnit : k \in 1..(2 * MaxT)}

InitPricer ==
    /\ pc = "args"
    /\ x = None
    /\ cfg = None
    /\ raised = None
    /\ locals = None
    /\ report = None
    /\ top_hints = None
    /\ text = None
    /\ \E s \in RoundTripSpots, r \in RoundTripRates, q \in RoundTripRates,
          T \in RoundTripTs :
        pr = [fn |-> "round_trip", spot |-> s, r |-> r, net_carry |-> q,
              T |-> T, F |-> None, result |-> None]

\* F = forward_carry(spot, r, net_carry, T)
ForwardCarry ==
    /\ pc = "args"
    /\ pr' = [pr EXCEPT !.F = Some(forward_carry(pr.spot, pr.r, pr.net_carry, pr.T))]
    /\ pc' = "forward"
    /\ UNCHANGED <<x, cfg, raised, locals, report, top_hints, text>>

\* implied_net_carry(spot, F, r, T)
ImpliedFromForward ==
    /\ pc = "forward"
    /\ pr' = [pr EXCEPT !.result =
                IF ~IsNone(PricerError(pr.spot, Val(pr.F), pr.T)) THEN None
                ELSE implied_net_carry(pr.spot, Val(pr.F), pr.r, pr.T)]
    /\ raised' = PricerError(pr.spot, Val(pr.F), pr.T)
    /\ pc' = IF ~IsNone(PricerError(pr.spot, Val(pr.F), pr.T))
             THEN "raised" ELSE "inverted"
    /\ UNCHANGED <<x, cfg, locals, report, top_hints, text>>

NextPricer ==
    \/ ForwardCarry
    \/ ImpliedFromForward

SpecPricer == InitPricer /\ [][NextPricer]_vars

---------------------------------------------------------------------------
(* Properties *)

\* run_ipv_check was called, and what it was called with.
Ran == ~IsNone(cfg)
Returned == Ran /\ ~IsNone(report)
OptionsSupplied == ~IsNone(Val(x).call) /\ ~IsNone(Val(x).put)
NoOptions == IsNone(Val(x).call) /\ IsNone(Val(x).put)
Evaluated == Returned /\ OptionsSupplied

\* The conditions the contract lists for an invalid input.
Invalid(i) ==
    \/ i.spot <= 0
    \/ i.strike <= 0
    \/ i.T <= 0
    \/ (i.call # None /\ Val(i.call) < 0)
    \/ (i.put # None /\ Val(i.put) < 0)
    \/ (i.call = None /\ i.put # None)
    \/ (i.call # None /\ i.put = None)

ValidationMessages ==
    {"spot must be > 0", "strike must be > 0", "T must be > 0",
     "call must be >= 0", "put must be >= 0",
     "provide both call and put (same K,T), or neither"}

\* C1: validate_inputs, called on its own or by run_ipv_check, raises its
\* ValueError exactly for the inputs with spot <= 0, strike <= 0, T <= 0, a
\* negative call, a negative put, or exactly one of call and put; on every
\* other input it returns without raising; and when run_ipv_check raises it,
\* no forward has been computed and no report exists.
C1_ValidationIff ==
    ~IsNone(x) =>
        /\ Invalid(Val(x)) <=>
              (pc = "raised" /\ ~IsNone(raised) /\ Val(raised) \in ValidationMessages)
        /\ ~Invalid(Val(x)) => IsNone(raised)
        /\ Invalid(Val(x)) => (IsNone(locals) /\ IsNone(report) /\ IsNone(text))

\* run_ipv_check raised on an input whose only defect is a put without a call.
C1_Witness ==
    /\ Ran /\ pc = "raised"
    /\ Val(x).spot > 0 /\ Val(x).strike > 0 /\ Val(x).T > 0
    /\ IsNone(Val(x).call) /\ ~IsNone(Val(x).put) /\ Val(Val(x).put) >= 0
    /\ raised = Some("provide both call and put (same K,T), or neither")

\* The band of the pass rule as section 8 writes it, tol_bps taken as it is.
SignedBand == Max(Val(cfg).tol_abs,
                  Div(Mul(Val(cfg).tol_bps, Val(locals).f_baseline), Num(10000)))

\* The band with the magnitude of tol_bps.
MagnitudeBand == Max(Val(cfg).tol_abs,
                     Div(Mul(Abs(Val(cfg).tol_bps), Val(locals).f_baseline), Num(10000)))

C3_NotApplicable ==
    (Ran /\ ~Invalid(Val(x)) /\ NoOptions) =>
        /\ pc \in {"returned", "formatted"}
        /\ Returned
        /\ LET rep == Val(report)
               i == Val(x)
           IN  /\ rep.status = "N/A (no options provided)"
               /\ rep.baseline_forward =
                    Round(Mul(i.spot, Exp(Mul(i.r - i.net_carry, i.T))), Val(cfg).rounding)
               /\ rep.baseline_forward > 0
               /\ rep.market_implied_forward = None
               /\ rep.abs_spread = None
               /\ rep.rel_spread_bps_vs_fbase = None
               /\ rep.rel_spread_bps_vs_spot = None
               /\ rep.net_carry_implied = None
               /\ rep.net_carry_implied_pct = None
               /\ rep.net_carry_gap_bps = None
               /\ rep.tolerances.tol_eff = None
               /\ rep.pass_eff = None
               /\ rep.root_cause_hints = <<>>

\* A report without options whose carry forward differs from the spot.
C3_Witness ==
    /\ Returned /\ NoOptions
    /\ Val(report).status = "N/A (no options provided)"
    /\ Val(report).baseline_forward # Val(x).spot

\* The hint lists the fixed sequence allows.
OrderedHintLists ==
    {<<HintTimestamp, HintConventions, d>> \o n \o <<HintSettlement, HintBidAsk>> :
        d \in {HintLower, HintHigher},
        n \in {<<>>, <<HintCarryMismatch>>, <<HintCarryUnavailable>>}}

\* C4: in every report the hint list is non-empty iff the status is FAIL, and
\* on FAIL it is timestamp, conventions, one directional hint, at most one
\* net-carry hint, settlement, bid/ask, in this order.
C4_HintsIffFailOrdered ==
    Returned =>
        /\ Val(report).root_cause_hints # <<>> <=> Val(report).status = "FAIL"
        /\ Val(report).status = "FAIL" =>
              Val(report).root_cause_hints \in OrderedHintLists

\* A FAIL report with the six hints, the directional one being HIGHER.
C4_Witness ==
    /\ Returned /\ Val(report).status = "FAIL"
    /\ Len(Val(report).root_cause_hints) = 6
    /\ Val(report).root_cause_hints[3] = HintHigher

\* The positions of the "Next checks" header in a text.
HeaderAt(t) == {p \in 1..Len(t) : t[p] = <<"Next checks        :">>}
Min(a, b) == IF a < b THEN a ELSE b

\* C5: the rendered text ends with the closing rule; for a non-empty hint
\* list h it holds, after one blank line and the header, exactly the first
\* min(max(n, 0), Len(h)) hints of h in their order, and for an empty hint
\* list neither the header nor the blank line before it.
C5_TruncatesNeverReorders ==
    pc = "formatted" =>
        LET t == Val(text)
            h == Val(report).root_cause_hints
            k == Min(Max(Val(top_hints), 0), Len(h))
        IN  /\ t[Len(t)] = Rule40
            /\ IF h # <<>>
               THEN /\ Cardinality(HeaderAt(t)) = 1
                    /\ \A p \in HeaderAt(t) :
                         /\ t[p - 1] = <<"">>
                         /\ Len(t) = p + k + 1
                         /\ \A j \in 1..k : t[p + j] = <<"- ", h[j]>>
               ELSE /\ HeaderAt(t) = {}
                    /\ t[Len(t) - 1] # <<"">>
                    /\ \A p \in 1..Len(t) : Head(t[p]) # "- "

\* top_hints = 2 on a six-hint list: the text holds hints 1 and 2 and no more.
C5_Witness ==
    /\ pc = "formatted"
    /\ Len(Val(report).root_cause_hints) = 6
    /\ top_hints = Some(2)
    /\ \E p \in HeaderAt(Val(text)) :
         /\ Val(text)[p + 1] = <<"- ", HintTimestamp>>
         /\ Val(text)[p + 2] = <<"- ", HintConventions>>
         /\ Val(text)[p + 3] = Rule40

\* The tolerance of the round trip: a tenth of the spacing of the rates drawn.
RoundTripTol == (Tenth \div 2) \div 10

\* C6: for spot > 0 and T > 0, implied_net_carry on the forward that
\* forward_carry gives for a net carry q never raises, returns a value and
\* not None, and that value is q to within the tolerance.
C6_RoundTrip ==
    /\ pc # "raised"
    /\ pc = "inverted" =>
          /\ ~IsNone(pr.result)
          /\ Abs(Val(pr.result) - pr.net_carry) <= RoundTripTol

\* A round trip through a forward above the spot and a net carry other than r.
C6_Witness ==
    /\ pc = "inverted"
    /\ pr.net_carry # pr.r
    /\ pr.net_carry # 0
    /\ Val(pr.F) > pr.spot
    /\ ~IsNone(pr.result)
    /\ Abs(Val(pr.result) - pr.net_carry) <= RoundTripTol

\* C7: on a FAIL report the list has 5 or 6 hints; the carry-mismatch hint
\* is there iff the implied net carry is present and |q_gap_bps| >=
\* tol_q_gap_bps, the not-available hint iff the implied net carry is
\* absent, either one only in position 4, and never both.
C7_NetCarrySlot ==
    (Returned /\ Val(report).status = "FAIL") =>
        LET h == Val(report).root_cause_hints
            l == Val(locals)
            has(m) == \E j \in 1..Len(h) : h[j] = m
        IN  /\ Len(h) \in {5, 6}
            /\ has(HintCarryMismatch) <=>
                  (~IsNone(l.q_impl) /\ Abs(Val(l.q_gap_bps)) >= Val(cfg).tol_q_gap_bps)
            /\ has(HintCarryUnavailable) <=> IsNone(l.q_impl)
            /\ ~(has(HintCarryMismatch) /\ has(HintCarryUnavailable))
            /\ \A j \in 1..Len(h) :
                  h[j] \in {HintCarryMismatch, HintCarryUnavailable} => (j = 4 /\ Len(h) = 6)
            /\ (~IsNone(l.q_impl) /\ Abs(Val(l.q_gap_bps)) < Val(cfg).tol_q_gap_bps)
                  => Len(h) = 5

\* A FAIL report of five hints: the implied net carry is present and its gap,
\* which is not zero, is below its tolerance.
C7_Witness ==
    /\ Returned /\ Val(report).status = "FAIL"
    /\ Len(Val(report).root_cause_hints) = 5
    /\ ~IsNone(Val(locals).q_impl)
    /\ Val(Val(locals).q_gap_bps) # 0

\* C8: implied_net_carry called on its own never raises and returns None
\* exactly when spot <= 0 or T <= 0 or F_target <= 0; run_ipv_check on a valid
\* input with options always returns, with status PASS or FAIL, and the
\* implied net carry and the net-carry gap are both None iff the parity
\* forward is <= 0, both present otherwise.
C8_UndefinedCarryIsAbsent ==
    /\ pr.fn = "implied_net_carry" =>
          /\ pc = "priced"
          /\ IsNone(raised)
          /\ IsNone(pr.result) <=> (pr.spot <= 0 \/ pr.T <= 0 \/ pr.F_target <= 0)
    /\ (Ran /\ ~Invalid(Val(x)) /\ OptionsSupplied) =>
          /\ pc \in {"returned", "formatted"}
          /\ IsNone(raised)
          /\ Returned
          /\ Val(report).status \in {"PASS", "FAIL"}
          /\ IsNone(Val(report).net_carry_implied) <=> Val(locals).f_mkt <= 0
          /\ IsNone(Val(report).net_carry_gap_bps) <=> Val(locals).f_mkt <= 0
          /\ IsNone(Val(report).net_carry_implied_pct) <=> Val(locals).f_mkt <= 0

\* A report on a parity forward of exactly zero: no implied net carry, no gap.
C8_Witness ==
    /\ Evaluated
    /\ Val(locals).f_mkt = 0
    /\ Val(report).status = "FAIL"
    /\ IsNone(Val(report).net_carry_implied)
    /\ IsNone(Val(report).net_carry_gap_bps)

C10_ShapeFollowsStatus ==
    /\ raised # Some("TypeError")
    /\ Returned =>
        LET rep == Val(report)
            derived == <<rep.market_implied_forward, rep.abs_spread,
                         rep.rel_spread_bps_vs_fbase, rep.rel_spread_bps_vs_spot,
                         rep.tolerances.tol_eff, rep.pass_eff>>
        IN  /\ rep.status \in {"PASS", "FAIL", "N/A (no options provided)"}
            /\ rep.status \in {"PASS", "FAIL"} <=> OptionsSupplied
            /\ rep.status \in {"PASS", "FAIL"} =>
                  /\ \A j \in 1..Len(derived) : ~IsNone(derived[j])
                  /\ Val(rep.pass_eff) <=> rep.status = "PASS"
            /\ rep.status = "N/A (no options provided)" <=>
                  \A j \in 1..Len(derived) : IsNone(derived[j])
            /\ rep.baseline_forward = Round(Val(locals).f_baseline, Val(cfg).rounding)
            /\ rep.net_carry_input = Val(x).net_carry

\* A PASS report: every option-derived field present, the pass boolean true.
C10_Witness ==
    /\ Returned /\ OptionsSupplied
    /\ Val(report).status = "PASS"
    /\ Val(report).pass_eff = Some(TRUE)
    /\ ~IsNone(Val(report).market_implied_forward)
    /\ Val(Val(report).abs_spread) # 0

===========================================================================
